---- MODULE Spec2Model ----
(***************************************************************************)
(* widdly: the TiddlerStore contract and its backends.                     *)
(*                                                                         *)
(*   SpecBolt   - the BoltDB backend (package bolt, src/store/store.go),   *)
(*                with concurrent callers, the single writer lock of       *)
(*                db.Update and the snapshot of db.View.                   *)
(*   SpecBoltScan - the BoltDB backend with one caller and the titles      *)
(*                "a" and "a|1".                                           *)
(*   SpecSqlite - the SQLite backend (src/store/sqlite/sqlite.go).         *)
(*   SpecFlat, SpecFlatSeq - the flat-file backend (package flatFile,      *)
(*                src/api/api_test.go), with concurrent writers and with   *)
(*                one caller.                                              *)
(*   SpecMarshal - Tiddler.MarshalJSON (src/store/store.go).               *)
(*   SpecApi    - the registration of the backends, main's opening of the  *)
(*                store and the HTTP handlers behind withAuth              *)
(*                (src/unnamed/part_000).                                  *)
(*                                                                         *)
(* Byte strings are tuples of one-character strings, so that key order,    *)
(* substring tests and LIKE patterns are computed on characters.           *)
(***************************************************************************)
EXTENDS Integers, Sequences, FiniteSets, TLC

(***************************************************************************)
(* Characters and byte strings                                             *)
(***************************************************************************)

\* The characters the model uses, in ASCII order.
AsciiOrder ==
    << "\"", "#", "$", "%", "+", ",", ".", "/",
       "0", "1", "2", "3", "4", "5", "6", "7", "8", "9", ":",
       "A", "F", "M", "R", "[", "]", "_",
       "a", "b", "c", "d", "e", "g", "h", "i", "l", "m", "n", "o", "r", "s", "t",
       "u", "v", "w", "x", "y", "{", "|", "}" >>

CharSet == { AsciiOrder[i] : i \in 1..Len(AsciiOrder) }

\* Position of a character in byte order.
Ord == [ c \in CharSet |-> CHOOSE i \in 1..Len(AsciiOrder) : AsciiOrder[i] = c ]

\* ASCII case folding (upper case letters of CharSet).
Lower(c) ==
    IF c = "A" THEN "a" ELSE IF c = "F" THEN "f"
    ELSE IF c = "M" THEN "m" ELSE IF c = "R" THEN "r" ELSE c

LowerStr(s) == [ i \in 1..Len(s) |-> Lower(s[i]) ]

\* bytes.Compare(a, b) < 0
RECURSIVE LexLess(_, _)
LexLess(a, b) ==
    IF b = << >> THEN FALSE
    ELSE IF a = << >> THEN TRUE
    ELSE IF Head(a) = Head(b) THEN LexLess(Tail(a), Tail(b))
    ELSE Ord[Head(a)] < Ord[Head(b)]

\* bytes.Contains(hay, needle)
Contains(hay, needle) ==
    \E i \in 0..(Len(hay) - Len(needle)) :
        SubSeq(hay, i + 1, i + Len(needle)) = needle

DigitChars == << "0", "1", "2", "3", "4", "5", "6", "7", "8", "9" >>

\* fmt.Sprintf("%d", n) for n >= 0
RECURSIVE Digits(_)
Digits(n) ==
    IF n < 10 THEN << DigitChars[n + 1] >>
    ELSE Digits(n \div 10) \o << DigitChars[(n % 10) + 1] >>

\* The elements of a finite set of byte strings in ascending byte order.
RECURSIVE SortedSeq(_)
SortedSeq(S) ==
    IF S = {} THEN << >>
    ELSE LET m == CHOOSE x \in S : \A y \in S \ {x} : LexLess(x, y)
         IN  << m >> \o SortedSeq(S \ {m})

(***************************************************************************)
(* JSON                                                                    *)
(*                                                                         *)
(* A byte value is [kind, fields, raw]:                                    *)
(*   kind = "object": the bytes of a JSON object, fields its members in    *)
(*                    document order, each [name, val];                    *)
(*   kind = "null":   the bytes null;                                      *)
(*   kind = "array":  the bytes of a JSON array;                           *)
(*   kind = "raw":    any other bytes (raw), not JSON; raw = << >> is the  *)
(*                    empty byte string.                                   *)
(* A member value is [t, s, n]: a string s, a number n, or an array with   *)
(* the one string s.                                                       *)
(***************************************************************************)

Str(s)  == [ t |-> "str", s |-> s,     n |-> 0 ]
Num(n)  == [ t |-> "num", s |-> << >>, n |-> n ]
Arr1(s) == [ t |-> "arr", s |-> s,     n |-> 0 ]

Field(name, val) == [ name |-> name, val |-> val ]

Object(fields) == [ kind |-> "object", fields |-> fields, raw |-> << >> ]
JsonNull       == [ kind |-> "null",   fields |-> << >>,  raw |-> << >> ]
JsonArray      == [ kind |-> "array",  fields |-> << >>,  raw |-> << >> ]
Raw(s)         == [ kind |-> "raw",    fields |-> << >>,  raw |-> s ]

\* nil, or []byte{} : no bytes at all.
EmptyBytes == Raw(<< >>)

IsEmpty(b) == b.kind = "raw" /\ b.raw = << >>

Quote(s) == << "\"" >> \o s \o << "\"" >>

RenderVal(v) ==
    IF v.t = "str" THEN Quote(v.s)
    ELSE IF v.t = "num" THEN Digits(v.n)
    ELSE << "[" >> \o Quote(v.s) \o << "]" >>

RECURSIVE RenderFields(_)
RenderFields(fs) ==
    IF fs = << >> THEN << >>
    ELSE Quote(Head(fs).name) \o << ":" >> \o RenderVal(Head(fs).val)
         \o (IF Len(fs) > 1 THEN << "," >> ELSE << >>)
         \o RenderFields(Tail(fs))

\* The characters of a byte value.
Render(b) ==
    IF b.kind = "object" THEN << "{" >> \o RenderFields(b.fields) \o << "}" >>
    ELSE IF b.kind = "null" THEN << "n", "u", "l", "l" >>
    ELSE IF b.kind = "array" THEN << "[", "]" >>
    ELSE b.raw

\* string(b)
String(b) == Render(b)

\* []byte(s)
Bytes(s) == Raw(s)

\* The members of an object as a map: a later member of the same name wins.
FieldMap(fs) ==
    LET names == { fs[i].name : i \in 1..Len(fs) }
        last(nm) == CHOOSE i \in 1..Len(fs) :
                        /\ fs[i].name = nm
                        /\ \A j \in (i + 1)..Len(fs) : fs[j].name # nm
    IN  [ nm \in names |-> fs[last(nm)].val ]

\* json.Unmarshal(b, &js) with js a map[string]interface{}.
\* err: the error; isnil: js is left nil (the bytes null); js: the map.
UnmarshalMap(b) ==
    IF b.kind = "object"
    THEN [ err |-> FALSE, isnil |-> FALSE, js |-> FieldMap(b.fields) ]
    ELSE IF b.kind = "null"
    THEN [ err |-> FALSE, isnil |-> TRUE, js |-> << >> ]
    ELSE [ err |-> TRUE, isnil |-> TRUE, js |-> << >> ]

\* json.Marshal(js) of a map: members in ascending key order.
MarshalMap(js) ==
    LET names == SortedSeq(DOMAIN js)
    IN  Object([ i \in 1..Len(names) |-> Field(names[i], js[names[i]]) ])

\* js[name] = val
MapSet(js, name, val) ==
    [ nm \in (DOMAIN js) \cup {name} |-> IF nm = name THEN val ELSE js[nm] ]

(***************************************************************************)
(* Shared types (package store)                                            *)
(***************************************************************************)

\* store.Tiddler
Tiddler(key, meta, text, withText) ==
    [ Key |-> key, Meta |-> meta, Text |-> text, WithText |-> withText ]

\* store.Tiddler{} : Meta is nil.
ZeroTiddler == Tiddler(<< >>, EmptyBytes, << >>, FALSE)

\* The literal of bytes.Contains(t.Meta, []byte(`"$:/tags/Macro"`)).
MacroTagValue ==
    << "$", ":", "/", "t", "a", "g", "s", "/", "M", "a", "c", "r", "o" >>

MacroTag == Quote(MacroTagValue)

IsMacro(meta) == Contains(Render(meta), MacroTag)

\* Member names.
NameRevision == << "r", "e", "v", "i", "s", "i", "o", "n" >>
NameText     == << "t", "e", "x", "t" >>
NameTitle    == << "t", "i", "t", "l", "e" >>
NameAuthor   == << "a", "u", "t", "h", "o", "r" >>
NameTags     == << "t", "a", "g", "s" >>
\* A member name that differs from "revision" by case only.
NameRevisionCap == << "R", "e", "v", "i", "s", "i", "o", "n" >>

NoMarshal == [ panic |-> FALSE, err |-> "nil", out |-> EmptyBytes ]

\* MarshalJSON that returns Meta for a fat tiddler too.
MarshalJSON_MetaOnly(t) == [ NoMarshal EXCEPT !.out = t.Meta ]

\* (*Tiddler).MarshalJSON: the bytes and the error it returns, or the panic
\* of js["text"] = t.Text on the nil map that Meta null leaves.
MarshalJSON(t) ==
    IF ~t.WithText THEN [ NoMarshal EXCEPT !.out = t.Meta ]
    ELSE LET u == UnmarshalMap(t.Meta)
         IN  IF u.err THEN [ NoMarshal EXCEPT !.err = "json" ]
             ELSE IF u.isnil THEN [ NoMarshal EXCEPT !.panic = TRUE ]
             ELSE [ NoMarshal EXCEPT !.out = MarshalMap(MapSet(u.js, NameText, Str(t.Text))) ]

\* Concurrent callers: net/http serves each request on its own goroutine.
Procs == { "p1", "p2" }

\* The number of committed Put and Delete calls a behaviour may hold.
MaxOps == 3

VARIABLES
    bLive,    \* bolt: the committed "tiddler" bucket, key -> bytes
    bHist,    \* bolt: the committed "tiddler_history" bucket, key -> bytes
    bWriter,  \* bolt: the caller inside db.Update, or "none"
    bTx,      \* bolt: the buckets as the open read-write transaction has them
    bPc,      \* bolt: each caller's position
    bCall,    \* bolt: each caller's operation and arguments
    bLoc,     \* bolt: each caller's local variables
    bRet,     \* bolt: what each caller's operation returned
    bLog      \* bolt: the committed Put and Delete calls, in commit order

boltVars == << bLive, bHist, bWriter, bTx, bPc, bCall, bLoc, bRet, bLog >>

VARIABLES
    sRows,    \* sqlite: the rows of table tiddler, in rowid order
    sSeq,     \* sqlite: the largest rowid AUTOINCREMENT has handed out
    sCall,    \* sqlite: the last operation called and its arguments
    sRet,     \* sqlite: what it returned
    sLog,     \* sqlite: the Put and Delete calls that returned nil, in order
    sCtx      \* sqlite: the context the last operation was called with

sqliteVars == << sRows, sSeq, sCall, sRet, sLog, sCtx >>

VARIABLES
    fFiles,   \* flat-file: the files of directory tiddlers, name -> bytes
    fHist,    \* flat-file: the files of directory tiddlerHistory, name -> bytes
    fPc,      \* flat-file: each caller's position
    fCall,    \* flat-file: each caller's operation and arguments
    fLoc,     \* flat-file: each caller's local variables
    fRet,     \* flat-file: what each caller's operation returned
    fLog      \* flat-file: the Put and Delete calls that returned, in order

flatVars == << fFiles, fHist, fPc, fCall, fLoc, fRet, fLog >>

VARIABLES
    mT,       \* MarshalJSON: the tiddler it is called on
    mRet      \* MarshalJSON: what it returned

marshalVars == << mT, mRet >>

VARIABLES
    rPending,  \* startup: the backend packages whose init() has yet to run
    rMustOpen, \* startup: store.MustOpen, "nil" or the backend that set it
    rInits,    \* startup: the init() calls so far, in order
    rState,    \* startup: "init", "serving" or "panicked"
    aStore,    \* api: api.Store, "nil" or the backend main opened
    aReq,      \* api: the last request served
    aCalls,    \* api: the calls its handler made on api.Store, in order
    aResp,     \* api: the response to it
    aHook,     \* api: api.Authenticate is set
    aAuth      \* api: whether the hook wrote to the response of the last
               \*      request, and how often withAuth invoked its handler

apiVars ==
    << rPending, rMustOpen, rInits, rState, aStore, aReq, aCalls, aResp, aHook, aAuth >>

vars == << boltVars, sqliteVars, flatVars, marshalVars, apiVars >>

\* What each part leaves alone: a specification is of one backend, of
\* MarshalJSON, or of the startup and the HTTP handlers over any store.
notBolt    == << sqliteVars, flatVars, marshalVars, apiVars >>
notSqlite  == << boltVars, flatVars, marshalVars, apiVars >>
notFlat    == << boltVars, sqliteVars, marshalVars, apiVars >>
notMarshal == << boltVars, sqliteVars, flatVars, apiVars >>
notApi     == << boltVars, sqliteVars, flatVars, marshalVars >>

(***************************************************************************)
(* BoltDB backend (package bolt)                                           *)
(***************************************************************************)

KeyA == << "a" >>
KeyB == << "b" >>

BoltKeys == { KeyA, KeyB }

TextHi == << "h", "i" >>
TextYo == << "y", "o" >>

\* The tiddlers callers put.
BoltTiddlers ==
    { Tiddler(KeyA, Object(<< Field(NameTitle, Str(KeyA)),
                              Field(NameAuthor, Str(<< "x" >>)) >>), TextHi, FALSE),
      Tiddler(KeyA, Object(<< Field(NameTags, Arr1(MacroTagValue)) >>), TextYo, FALSE),
      Tiddler(KeyA, Object(<< Field(NameRevisionCap, Str(<< "x" >>)) >>), TextHi, FALSE),
      Tiddler(KeyB, Object(<< Field(NameAuthor, Str(<< "x" >>)) >>), TextYo, FALSE),
      Tiddler(KeyB, Raw(<< "x" >>), TextHi, FALSE),
      Tiddler(KeyB, JsonNull, TextHi, FALSE) }

\* key + "|1", key + "|2"
MetaKey(key) == key \o << "|", "1" >>
TextKey(key) == key \o << "|", "2" >>

\* fmt.Sprintf("%s#%d", key, rev)
HistoryKey(key, rev) == key \o << "#" >> \o Digits(rev)

\* b.Get(k) of a bucket: nil when the key is absent; the value of a key that
\* was put with a nil or empty value is an empty, non-nil slice.
BucketHas(b, k) == k \in DOMAIN b
BucketGet(b, k) == IF k \in DOMAIN b THEN b[k] ELSE EmptyBytes

\* b.Put(k, v)
BucketPut(b, k, v) == MapSet(b, k, v)

\* json.Unmarshal(data, &meta) with meta a struct{ Revision int }: a member
\* matches the field when its name equals "Revision" ignoring case; a number
\* is stored, any other member value is a type error, which Unmarshal returns
\* after decoding the rest.
UnmarshalRevision(data) ==
    IF data.kind = "object"
    THEN LET fs  == data.fields
             hit == { i \in 1..Len(fs) : LowerStr(fs[i].name) = NameRevision }
             num == { i \in hit : fs[i].val.t = "num" }
         IN  [ err |-> (hit # num),
               Revision |-> IF num = {} THEN 0
                            ELSE fs[CHOOSE i \in num : \A j \in num : j <= i].val.n ]
    ELSE IF data.kind = "null"
    THEN [ err |-> FALSE, Revision |-> 0 ]
    ELSE [ err |-> TRUE, Revision |-> 0 ]

BoltGetLastRevision(b, mkey) ==
    LET meta == UnmarshalRevision(BucketGet(b, mkey))
    IN  IF BucketHas(b, mkey) /\ ~meta.err
        THEN meta.Revision + 1
        ELSE 1

\* PutMetaData without js["revision"] = rev.
PutMetaData_NoRevision(js, rev) == MarshalMap(js)

\* The bytes Put stores under the metadata key: js["revision"] = rev, then
\* json.Marshal(js).
PutMetaData(js, rev) == MarshalMap(MapSet(js, NameRevision, Num(rev)))

\* The bytes Put stores in the history: js["text"] = tiddler.Text on top.
PutHistoryData(js, rev, text) ==
    MarshalMap(MapSet(MapSet(js, NameRevision, Num(rev)), NameText, Str(text)))

\* The cursor loop of All over the bucket's keys in byte order: the entry
\* under the cursor is taken as metadata, the next one as its text.
RECURSIVE BoltScan(_, _, _)
BoltScan(b, keys, i) ==
    IF i > Len(keys) THEN << >>
    ELSE LET meta == b[keys[i]]
             text == IF i + 1 <= Len(keys) THEN b[keys[i + 1]] ELSE EmptyBytes
             fat  == IsMacro(meta)
             t    == [ Key |-> << >>, Meta |-> meta,
                       Text |-> IF fat THEN String(text) ELSE << >>,
                       WithText |-> fat,
                       from |-> keys[i] ]   \* the bucket key Meta was read from
         IN  IF IsEmpty(meta)
             THEN BoltScan(b, keys, i + 2)
             ELSE << t >> \o BoltScan(b, keys, i + 2)

BoltAllOf(b) == BoltScan(b, SortedSeq(DOMAIN b), 1)

NoTx   == [ live |-> << >>, hist |-> << >> ]
NoCall == [ op |-> "none", key |-> << >>, meta |-> EmptyBytes, text |-> << >> ]
NoLoc  == [ js |-> << >>, isnil |-> FALSE, rev |-> 0, snap |-> << >>,
            meta |-> EmptyBytes, at |-> 0 ]
\* at: the number of committed writes the operation's transaction saw.
NoRet  == [ err |-> "nil", rev |-> 0, t |-> ZeroTiddler, all |-> << >>, at |-> 0 ]

\* The committed writes a transaction begun now sees.
Now == Len(bLog)

\* Callers that have begun a Put or Delete that is not yet committed.
Writing == { p \in Procs : bPc[p] \in { "put", "put_tx", "delete_tx" } }

InitBolt ==
    /\ bLive = << >>
    /\ bHist = << >>
    /\ bWriter = "none"
    /\ bTx = NoTx
    /\ bPc = [ p \in Procs |-> "idle" ]
    /\ bCall = [ p \in Procs |-> NoCall ]
    /\ bLoc = [ p \in Procs |-> NoLoc ]
    /\ bRet = [ p \in Procs |-> NoRet ]
    /\ bLog = << >>

\* Put, up to db.Update: json.Unmarshal(tiddler.Meta, &js).
BoltPutBegin(p, t) ==
    /\ UNCHANGED notBolt
    /\ bPc[p] = "idle"
    /\ Now + Cardinality(Writing) < MaxOps
    /\ LET u == UnmarshalMap(t.Meta)
       IN  /\ bCall' = [ bCall EXCEPT ![p] =
                 [ op |-> "put", key |-> t.Key, meta |-> t.Meta, text |-> t.Text ] ]
           /\ IF u.err
              THEN /\ bPc' = [ bPc EXCEPT ![p] = "done" ]
                   /\ bRet' = [ bRet EXCEPT ![p] = [ NoRet EXCEPT !.err = "json" ] ]
                   /\ bLoc' = bLoc
              ELSE /\ bPc' = [ bPc EXCEPT ![p] = "put" ]
                   /\ bLoc' = [ bLoc EXCEPT ![p] =
                         [ NoLoc EXCEPT !.js = u.js, !.isnil = u.isnil ] ]
                   /\ bRet' = bRet
    /\ UNCHANGED << bLive, bHist, bWriter, bTx, bLog >>

\* Put, the function passed to db.Update: db.Update takes the writer lock,
\* the function works on the transaction's buckets. Assigning to the nil map
\* panics; db.Update rolls the transaction back and the panic goes on.
BoltPutUpdate(p) ==
    /\ UNCHANGED notBolt
    /\ bPc[p] = "put"
    /\ bWriter = "none"
    /\ LET key  == bCall[p].key
           mkey == MetaKey(key)
           rev  == BoltGetLastRevision(bLive, mkey)
           js   == bLoc[p].js
           b1   == BucketPut(bLive, mkey, PutMetaData(js, rev))
           b2   == BucketPut(b1, TextKey(key), Bytes(bCall[p].text))
           h1   == BucketPut(bHist, HistoryKey(key, rev),
                             PutHistoryData(js, rev, bCall[p].text))
       IN  IF bLoc[p].isnil
           THEN /\ bPc' = [ bPc EXCEPT ![p] = "done" ]
                /\ bRet' = [ bRet EXCEPT ![p] = [ NoRet EXCEPT !.err = "panic" ] ]
                /\ bLoc' = [ bLoc EXCEPT ![p] = NoLoc ]
                /\ UNCHANGED << bWriter, bTx >>
           ELSE /\ bPc' = [ bPc EXCEPT ![p] = "put_tx" ]
                /\ bWriter' = p
                /\ bTx' = [ live |-> b2, hist |-> h1 ]
                /\ bLoc' = [ bLoc EXCEPT ![p].rev = rev ]
                /\ bRet' = bRet
    /\ UNCHANGED << bLive, bHist, bCall, bLog >>

\* Put, the commit of db.Update and the return of rev.
BoltPutCommit(p) ==
    /\ UNCHANGED notBolt
    /\ bPc[p] = "put_tx"
    /\ bWriter = p
    /\ bLive' = bTx.live
    /\ bHist' = bTx.hist
    /\ bWriter' = "none"
    /\ bTx' = NoTx
    /\ bLog' = Append(bLog, [ op |-> "put", key |-> bCall[p].key, rev |-> bLoc[p].rev,
                              meta |-> bCall[p].meta, text |-> bCall[p].text ])
    /\ bPc' = [ bPc EXCEPT ![p] = "done" ]
    /\ bRet' = [ bRet EXCEPT ![p] = [ NoRet EXCEPT !.rev = bLoc[p].rev ] ]
    /\ bLoc' = [ bLoc EXCEPT ![p] = NoLoc ]
    /\ UNCHANGED bCall

\* Delete, the function passed to db.Update.
BoltDeleteUpdate(p, key) ==
    /\ UNCHANGED notBolt
    /\ bPc[p] = "idle"
    /\ Now + Cardinality(Writing) < MaxOps
    /\ bWriter = "none"
    /\ LET mkey == MetaKey(key)
           rev  == BoltGetLastRevision(bLive, mkey)
           b1   == BucketPut(bLive, mkey, EmptyBytes)
           b2   == BucketPut(b1, TextKey(key), EmptyBytes)
           h1   == BucketPut(bHist, HistoryKey(key, rev), EmptyBytes)
       IN  /\ bTx' = [ live |-> b2, hist |-> h1 ]
           /\ bLoc' = [ bLoc EXCEPT ![p] = [ NoLoc EXCEPT !.rev = rev ] ]
    /\ bWriter' = p
    /\ bPc' = [ bPc EXCEPT ![p] = "delete_tx" ]
    /\ bCall' = [ bCall EXCEPT ![p] = [ NoCall EXCEPT !.op = "delete", !.key = key ] ]
    /\ UNCHANGED << bLive, bHist, bRet, bLog >>

\* Delete, the commit of db.Update and the return of nil.
BoltDeleteCommit(p) ==
    /\ UNCHANGED notBolt
    /\ bPc[p] = "delete_tx"
    /\ bWriter = p
    /\ bLive' = bTx.live
    /\ bHist' = bTx.hist
    /\ bWriter' = "none"
    /\ bTx' = NoTx
    /\ bLog' = Append(bLog, [ op |-> "delete", key |-> bCall[p].key, rev |-> bLoc[p].rev,
                              meta |-> EmptyBytes, text |-> << >> ])
    /\ bPc' = [ bPc EXCEPT ![p] = "done" ]
    /\ bRet' = [ bRet EXCEPT ![p] = NoRet ]
    /\ bLoc' = [ bLoc EXCEPT ![p] = NoLoc ]
    /\ UNCHANGED bCall

\* GetTextBucket with the text read in a transaction of its own.
GetTextBucket_Committed(p) == bLive

\* The bucket Get reads the text from: the one of the db.View transaction
\* that read the metadata.
GetTextBucket(p) == bLoc[p].snap

\* Get, the start of db.View and b.Get(key + "|1"). A read-only transaction
\* reads the database as committed when it began.
BoltGetMeta(p, key) ==
    /\ UNCHANGED notBolt
    /\ bPc[p] = "idle"
    /\ bCall' = [ bCall EXCEPT ![p] = [ NoCall EXCEPT !.op = "get", !.key = key ] ]
    /\ IF ~BucketHas(bLive, MetaKey(key))
       THEN /\ bPc' = [ bPc EXCEPT ![p] = "done" ]
            /\ bRet' = [ bRet EXCEPT ![p] =
                  [ NoRet EXCEPT !.err = "ErrNotFound", !.at = Now ] ]
            /\ bLoc' = bLoc
       ELSE /\ bPc' = [ bPc EXCEPT ![p] = "get" ]
            /\ bLoc' = [ bLoc EXCEPT ![p] =
                  [ NoLoc EXCEPT !.snap = bLive, !.at = Now,
                                 !.meta = BucketGet(bLive, MetaKey(key)) ] ]
            /\ bRet' = bRet
    /\ UNCHANGED << bLive, bHist, bWriter, bTx, bLog >>

\* Get, b.Get(key + "|2") and the return of the fat tiddler.
BoltGetText(p) ==
    /\ UNCHANGED notBolt
    /\ bPc[p] = "get"
    /\ bPc' = [ bPc EXCEPT ![p] = "done" ]
    /\ bRet' = [ bRet EXCEPT ![p] =
          [ NoRet EXCEPT
              !.t = Tiddler(<< >>, bLoc[p].meta,
                            String(BucketGet(GetTextBucket(p), TextKey(bCall[p].key))),
                            TRUE),
              !.at = bLoc[p].at ] ]
    /\ bLoc' = [ bLoc EXCEPT ![p] = NoLoc ]
    /\ UNCHANGED << bLive, bHist, bWriter, bTx, bCall, bLog >>

\* All: one db.View transaction, the cursor loop over its buckets.
BoltAll(p) ==
    /\ UNCHANGED notBolt
    /\ bPc[p] = "idle"
    /\ bCall' = [ bCall EXCEPT ![p] = [ NoCall EXCEPT !.op = "all" ] ]
    /\ bPc' = [ bPc EXCEPT ![p] = "done" ]
    /\ bRet' = [ bRet EXCEPT ![p] =
          [ NoRet EXCEPT !.all = BoltAllOf(bLive), !.at = Now ] ]
    /\ UNCHANGED << bLive, bHist, bWriter, bTx, bLoc, bLog >>

\* The caller takes the result; its goroutine is free for the next request.
BoltReturn(p) ==
    /\ UNCHANGED notBolt
    /\ bPc[p] = "done"
    /\ bPc' = [ bPc EXCEPT ![p] = "idle" ]
    /\ bCall' = [ bCall EXCEPT ![p] = NoCall ]
    /\ bRet' = [ bRet EXCEPT ![p] = NoRet ]
    /\ UNCHANGED << bLive, bHist, bWriter, bTx, bLoc, bLog >>

NextBolt ==
    \/ \E p \in Procs, t \in BoltTiddlers : BoltPutBegin(p, t)
    \/ \E p \in Procs : BoltPutUpdate(p)
    \/ \E p \in Procs : BoltPutCommit(p)
    \/ \E p \in Procs, key \in BoltKeys : BoltDeleteUpdate(p, key)
    \/ \E p \in Procs : BoltDeleteCommit(p)
    \/ \E p \in Procs, key \in BoltKeys : BoltGetMeta(p, key)
    \/ \E p \in Procs : BoltGetText(p)
    \/ \E p \in Procs : BoltAll(p)
    \/ \E p \in Procs : BoltReturn(p)


(***************************************************************************)
(* BoltDB backend: properties                                              *)
(***************************************************************************)

\* The index of the last of the first n committed writes that is on key, or 0.
LastWrite(key, n) ==
    LET on == { i \in 1..n : bLog[i].key = key }
    IN  IF on = {} THEN 0 ELSE CHOOSE i \in on : \A j \in on : j <= i

\* The committed write a finished Get or All of caller p saw last on key, or 0.
Seen(p, key) == LastWrite(key, bRet[p].at)

Finished(p, op) == bPc[p] = "done" /\ bCall[p].op = op

IsPutOf(e, key)    == e.op = "put" /\ e.key = key
IsDeleteOf(e, key) == e.op = "delete" /\ e.key = key

\* The JSON object of Meta with its revision member set to rev.
MetaWithRevision(meta, rev) ==
    [ err |-> FALSE, isnil |-> FALSE,
      js |-> MapSet(UnmarshalMap(meta).js, NameRevision, Num(rev)) ]

\* C1: for every key that was never deleted, the revisions its committed Puts
\* returned are 1, 2, ..., n in commit order, whatever the interleaving of
\* the callers.
C1_PutRevisionsCountUp ==
    \A key \in BoltKeys :
        (\A i \in 1..Len(bLog) : ~IsDeleteOf(bLog[i], key)) =>
            LET puts == SelectSeq(bLog, LAMBDA e : IsPutOf(e, key))
            IN  \A i \in 1..Len(puts) : puts[i].rev = i

\* C1 for the Puts whose Meta has no member named like "revision" in another
\* case.
PutRevisionsCountUpPlainMeta ==
    \A key \in BoltKeys :
        (\A i \in 1..Len(bLog) :
            /\ ~IsDeleteOf(bLog[i], key)
            /\ IsPutOf(bLog[i], key) =>
                 \A j \in 1..Len(bLog[i].meta.fields) :
                     LowerStr(bLog[i].meta.fields[j].name) # NameRevision) =>
            LET puts == SelectSeq(bLog, LAMBDA e : IsPutOf(e, key))
            IN  \A i \in 1..Len(puts) : puts[i].rev = i

\* C2: a Get whose transaction saw Put(t), returning r, as the last write of
\* its key returns a fat tiddler with Text = t.Text and Meta = t.Meta's object
\* with revision = r.
C2_GetReturnsLastPut ==
    \A p \in Procs :
        Finished(p, "get") /\ Seen(p, bCall[p].key) > 0 =>
            LET e == bLog[Seen(p, bCall[p].key)]
            IN  e.op = "put" =>
                    /\ bRet[p].err = "nil"
                    /\ bRet[p].t.WithText
                    /\ bRet[p].t.Text = e.text
                    /\ UnmarshalMap(bRet[p].t.Meta) = MetaWithRevision(e.meta, e.rev)

\* C2 witness: a Get has returned the second Put of a key whose Meta members
\* were not given in key order.
C2_Witness ==
    \E p \in Procs :
        /\ Finished(p, "get")
        /\ Seen(p, bCall[p].key) > 0
        /\ LET e == bLog[Seen(p, bCall[p].key)]
           IN  /\ e.op = "put"
               /\ e.rev = 2
               /\ e.meta # MarshalMap(UnmarshalMap(e.meta).js)
               /\ bRet[p].t.Text = e.text

\* A key whose last write among the first n is a Delete that followed a Put.
DeletedLive(key, n) ==
    /\ LastWrite(key, n) > 0
    /\ bLog[LastWrite(key, n)].op = "delete"
    /\ LastWrite(key, LastWrite(key, n) - 1) > 0
    /\ bLog[LastWrite(key, LastWrite(key, n) - 1)].op = "put"

\* C3: once Delete(k) of a live key is committed, a Get(k) that saw it as the
\* last write of k returns ErrNotFound, and an All that saw it has no entry
\* read from k.
C3_DeletedIsGone ==
    \A p \in Procs :
        /\ (Finished(p, "get") /\ DeletedLive(bCall[p].key, bRet[p].at)) =>
               bRet[p].err = "ErrNotFound"
        /\ Finished(p, "all") =>
               \A key \in BoltKeys :
                   DeletedLive(key, bRet[p].at) =>
                       \A i \in 1..Len(bRet[p].all) :
                           bRet[p].all[i].from # MetaKey(key)

\* The All half of C3 alone.
AllSkipsDeleted ==
    \A p \in Procs :
        Finished(p, "all") =>
            \A key \in BoltKeys :
                DeletedLive(key, bRet[p].at) =>
                    \A i \in 1..Len(bRet[p].all) :
                        bRet[p].all[i].from # MetaKey(key)

\* C4: every revision a Put or Delete assigns to a key is greater than every
\* revision assigned to that key before.
C4_RevisionsIncrease ==
    \A i, j \in 1..Len(bLog) :
        (i < j /\ bLog[i].key = bLog[j].key) => bLog[i].rev < bLog[j].rev

\* C5: the history is append-only: a step keeps every history entry with its
\* value, and a committed Put or Delete adds exactly one entry.
C5_HistoryAppendOnly ==
    [][ /\ \A hk \in DOMAIN bHist : hk \in DOMAIN bHist' /\ bHist'[hk] = bHist[hk]
        /\ bLog' # bLog =>
              Cardinality(DOMAIN bHist') = Cardinality(DOMAIN bHist) + 1 ]_vars

\* The metadata and text bytes a committed write leaves under its key.
Stored(e) ==
    IF e.op = "put"
    THEN << PutMetaData(UnmarshalMap(e.meta).js, e.rev), e.text >>
    ELSE << EmptyBytes, << >> >>

\* C6: the Meta and Text a Get returns, and those of every fat tiddler All
\* returns, are the ones one and the same committed write left under the key.
C6_NoMixedRecord ==
    \A p \in Procs :
        /\ (Finished(p, "get") /\ bRet[p].err = "nil") =>
               \E i \in 1..Len(bLog) :
                   /\ bLog[i].key = bCall[p].key
                   /\ << bRet[p].t.Meta, bRet[p].t.Text >> = Stored(bLog[i])
        /\ Finished(p, "all") =>
               \A j \in 1..Len(bRet[p].all) :
                   LET t == bRet[p].all[j]
                   IN  \E i \in 1..Len(bLog) :
                           /\ MetaKey(bLog[i].key) = t.from
                           /\ t.Meta = Stored(bLog[i])[1]
                           /\ t.WithText => t.Text = Stored(bLog[i])[2]

\* C6 witness: a Get has returned a record although a Put of the same key,
\* with another text, was committed while the Get was running.
C6_Witness ==
    \E p \in Procs :
        /\ Finished(p, "get")
        /\ bRet[p].err = "nil"
        /\ \E i \in (bRet[p].at + 1)..Len(bLog) :
               /\ IsPutOf(bLog[i], bCall[p].key)
               /\ bLog[i].text # bRet[p].t.Text
        /\ Seen(p, bCall[p].key) > 0
        /\ bLog[Seen(p, bCall[p].key)].op = "put"

(***************************************************************************)
(* SQLite backend (package sqlite)                                         *)
(*                                                                         *)
(* One caller; each method is one action. The statements have no ORDER BY: *)
(* the table has no index but its rowid, so SQLite walks it in rowid order *)
(* and LIMIT 1 yields the matching row of the lowest rowid.                *)
(***************************************************************************)

\* The number of Put and Delete calls a behaviour may hold.
SqliteMaxOps == 3

KeyAB  == << "a", "b" >>
KeyPct == << "%" >>

SqliteKeys == { KeyA, KeyAB, KeyB, KeyPct }

\* The tiddlers callers put.
SqliteTiddlers ==
    { Tiddler(KeyA, Object(<< Field(NameTitle, Str(KeyA)) >>), TextHi, FALSE),
      Tiddler(KeyA, Object(<< Field(NameTitle, Str(KeyA)),
                              Field(NameTags, Arr1(MacroTagValue)) >>), TextYo, FALSE),
      Tiddler(KeyAB, Object(<< Field(NameTitle, Str(KeyAB)) >>), TextYo, FALSE),
      Tiddler(KeyB, Object(<< Field(NameAuthor, Str(<< "x" >>)) >>), TextHi, FALSE),
      Tiddler(KeyPct, Object(<< Field(NameTitle, Str(KeyPct)) >>), TextHi, FALSE),
      Tiddler(KeyB, Raw(<< "x" >>), TextHi, FALSE),
      Tiddler(KeyB, JsonNull, TextYo, FALSE) }

\* str LIKE pat in SQLite: % is any run of characters, _ any one character,
\* any other character is itself, ignoring ASCII case.
RECURSIVE Like(_, _)
Like(pat, str) ==
    IF pat = << >> THEN str = << >>
    ELSE IF Head(pat) = "%"
    THEN Like(Tail(pat), str) \/ (str # << >> /\ Like(pat, Tail(str)))
    ELSE /\ str # << >>
         /\ Head(pat) = "_" \/ Lower(Head(pat)) = Lower(Head(str))
         /\ Like(Tail(pat), Tail(str))

\* The indexes of the rows with meta LIKE pat.
Matching(rows, pat) == { i \in 1..Len(rows) : Like(pat, Render(rows[i].meta)) }

\* ... WHERE meta LIKE pat LIMIT 1: the index of the row, or 0 for no row
\* (Scan returns sql.ErrNoRows).
FirstMatch(rows, pat) ==
    LET m == Matching(rows, pat)
    IN  IF m = {} THEN 0 ELSE CHOOSE i \in m : \A j \in m : i <= j

\* "%" + key + "%"
GetPattern(key) == << "%" >> \o key \o << "%" >>

SqliteGetLastRevision(rows, mkey) ==
    LET i == FirstMatch(rows, mkey)
        revision == 0            \* var revision int, left alone by a failed Scan
    IN  IF i # 0                 \* err == nil
        THEN 1
        ELSE revision

NoSqliteRet == [ err |-> "nil", rev |-> 0, t |-> ZeroTiddler, all |-> << >> ]

InitSqlite ==
    /\ sRows = << >>
    /\ sSeq = 0
    /\ sCall = NoCall
    /\ sRet = NoSqliteRet
    /\ sLog = << >>
    /\ sCtx = "live"

SqliteGet(key) ==
    /\ UNCHANGED notSqlite
    /\ sCall' = [ NoCall EXCEPT !.op = "get", !.key = key ]
    /\ LET i == FirstMatch(sRows, GetPattern(key))
       IN  sRet' = IF i = 0
                   THEN [ NoSqliteRet EXCEPT !.err = "sql.ErrNoRows" ]
                   ELSE [ NoSqliteRet EXCEPT
                            !.t = Tiddler(<< >>, sRows[i].meta,
                                          String(sRows[i].content), TRUE) ]
    /\ UNCHANGED << sRows, sSeq, sLog >>

\* The tiddler All makes of a row.
SqliteAllRow(row) ==
    [ Key |-> << >>, Meta |-> row.meta,
      Text |-> IF IsMacro(row.meta) THEN String(row.content) ELSE << >>,
      WithText |-> IsMacro(row.meta),
      from |-> row.id ]          \* the rowid the entry was read from

SqliteAll ==
    /\ UNCHANGED notSqlite
    /\ sCall' = [ NoCall EXCEPT !.op = "all" ]
    /\ sRet' = [ NoSqliteRet EXCEPT
                   !.all = [ i \in 1..Len(sRows) |-> SqliteAllRow(sRows[i]) ] ]
    /\ UNCHANGED << sRows, sSeq, sLog >>

SqlitePut(t) ==
    /\ UNCHANGED notSqlite
    /\ Len(sLog) < SqliteMaxOps
    /\ sCall' = [ op |-> "put", key |-> t.Key, meta |-> t.Meta, text |-> t.Text ]
    /\ IF UnmarshalMap(t.Meta).err
       THEN /\ sRet' = [ NoSqliteRet EXCEPT !.err = "json" ]
            /\ UNCHANGED << sRows, sSeq, sLog >>
       ELSE LET rev == SqliteGetLastRevision(sRows, t.Key)
            IN  /\ sRows' = Append(sRows, [ id |-> sSeq + 1, meta |-> t.Meta,
                                            content |-> Bytes(t.Text), revision |-> rev ])
                /\ sSeq' = sSeq + 1
                /\ sRet' = [ NoSqliteRet EXCEPT !.rev = rev ]
                /\ sLog' = Append(sLog, [ op |-> "put", key |-> t.Key, rev |-> rev,
                                          meta |-> t.Meta, text |-> t.Text,
                                          id |-> sSeq + 1 ])

SqliteDelete(key) ==
    /\ UNCHANGED notSqlite
    /\ Len(sLog) < SqliteMaxOps
    /\ sCall' = [ NoCall EXCEPT !.op = "delete", !.key = key ]
    /\ sRows' = SelectSeq(sRows, LAMBDA row : ~Like(key, Render(row.meta)))
    /\ sRet' = NoSqliteRet
    /\ sLog' = Append(sLog, [ op |-> "delete", key |-> key, rev |-> 0,
                              meta |-> EmptyBytes, text |-> << >>, id |-> 0 ])
    /\ UNCHANGED sSeq

\* The context a caller passes: live, or cancelled before the call.
Contexts == { "live", "cancelled" }

\* A method called with context ctx.  Get and All name the parameter _, Put
\* and Delete name it ctx and never read it; the statements are prepared
\* and run by the calls of database/sql that take no context.
SqliteWithContext(ctx, method) ==
    /\ sCtx' = ctx
    /\ method

NextSqlite ==
    \/ \E ctx \in Contexts, key \in SqliteKeys : SqliteWithContext(ctx, SqliteGet(key))
    \/ \E ctx \in Contexts : SqliteWithContext(ctx, SqliteAll)
    \/ \E ctx \in Contexts, t \in SqliteTiddlers : SqliteWithContext(ctx, SqlitePut(t))
    \/ \E ctx \in Contexts, key \in SqliteKeys : SqliteWithContext(ctx, SqliteDelete(key))

(***************************************************************************)
(* SQLite backend: properties                                              *)
(***************************************************************************)

\* The index of the last write on key in the log, or 0.
SqliteLastWrite(key, n) ==
    LET on == { i \in 1..n : sLog[i].key = key }
    IN  IF on = {} THEN 0 ELSE CHOOSE i \in on : \A j \in on : j <= i

\* The index of the last Put of key among the first n writes, or 0.
SqliteLastPut(key, n) ==
    LET on == { i \in 1..n : IsPutOf(sLog[i], key) }
    IN  IF on = {} THEN 0 ELSE CHOOSE i \in on : \A j \in on : j <= i

\* The keys whose last write is a Put.
SqliteLive ==
    { key \in SqliteKeys :
        /\ SqliteLastWrite(key, Len(sLog)) > 0
        /\ sLog[SqliteLastWrite(key, Len(sLog))].op = "put" }

\* C7 in the BoltDB backend: a Get of a key no Put or Delete was committed on
\* when its transaction began returns ErrNotFound and the zero tiddler.
BoltGetNeverWritten ==
    \A p \in Procs :
        Finished(p, "get") /\ Seen(p, bCall[p].key) = 0 =>
            bRet[p].err = "ErrNotFound" /\ bRet[p].t = ZeroTiddler

\* C7 in the SQLite backend: a Get of a key no Put or Delete was called on
\* returns store.ErrNotFound and the zero tiddler.
SqliteGetNeverWritten ==
    sCall.op = "get" /\ SqliteLastWrite(sCall.key, Len(sLog)) = 0 =>
        sRet.err = "ErrNotFound" /\ sRet.t = ZeroTiddler

\* C7: in every backend, Get of a key that was never written returns
\* store.ErrNotFound and no tiddler content, whatever was written on other
\* keys (the BoltDB and the SQLite backend).
C7_GetNeverWritten == BoltGetNeverWritten /\ SqliteGetNeverWritten

\* C8: the first Put of a key returns revision 1, every later Put of the key
\* the revision of the Put of that key before it plus 1.
C8_SqliteRevisions ==
    \A i \in 1..Len(sLog) :
        sLog[i].op = "put" =>
            LET prev == SqliteLastPut(sLog[i].key, i - 1)
            IN  sLog[i].rev = IF prev = 0 THEN 1 ELSE sLog[prev].rev + 1

\* C9: after two Puts of a key, with no write on the key since, Get of the
\* key returns the Text and the Meta of the second.
C9_SqliteGetMostRecent ==
    LET last == SqliteLastWrite(sCall.key, Len(sLog))
        prev == SqliteLastWrite(sCall.key, last - 1)
    IN  (/\ sCall.op = "get"
         /\ last > 0 /\ sLog[last].op = "put"
         /\ prev > 0 /\ sLog[prev].op = "put") =>
            /\ sRet.err = "nil"
            /\ sRet.t.Meta = sLog[last].meta
            /\ sRet.t.Text = sLog[last].text

\* C10: All returns one entry for each key whose last write is a Put, the
\* row of that Put, and nothing else.
C10_SqliteAllLiveOnly ==
    sCall.op = "all" =>
        /\ Len(sRet.all) = Cardinality(SqliteLive)
        /\ \A key \in SqliteLive :
               \E i \in 1..Len(sRet.all) :
                   sRet.all[i].from = sLog[SqliteLastWrite(key, Len(sLog))].id

\* The keys that were put and whose last write is a Delete.
SqliteDeleted ==
    { key \in SqliteKeys :
        LET last == SqliteLastWrite(key, Len(sLog))
        IN  /\ last > 0
            /\ sLog[last].op = "delete"
            /\ SqliteLastPut(key, last) > 0 }

\* The rowids of the rows the Puts of key wrote.
SqlitePutIds(key) == { sLog[i].id : i \in { j \in 1..Len(sLog) : IsPutOf(sLog[j], key) } }

\* C11: after Delete of a key that was put returned nil, with no Put of the
\* key since, Get of the key returns an error and no record, and All holds no
\* row a Put of the key wrote.
C11_SqliteDeletedIsGone ==
    /\ sCall.op = "get" /\ sCall.key \in SqliteDeleted =>
           sRet.err # "nil" /\ sRet.t = ZeroTiddler
    /\ sCall.op = "all" =>
           \A key \in SqliteDeleted :
               \A i \in 1..Len(sRet.all) : sRet.all[i].from \notin SqlitePutIds(key)

(***************************************************************************)
(* Flat-file backend (package flatFile)                                    *)
(*                                                                         *)
(* A directory is a function from the names of its files to their bytes.   *)
(* MustOpen makes the directories tiddlers and tiddlerHistory and nothing  *)
(* makes a directory below them, so a name with a "/" names no file.       *)
(* Put is four steps (the scan of the history and the three WriteFile      *)
(* calls) and Delete two (the two os.Remove calls): no lock is taken, so   *)
(* the steps of two callers interleave.                                    *)
(***************************************************************************)

\* The number of Put and Delete calls a behaviour may hold.
FlatMaxOps == 3

KeyHash  == << "a", "#", "b" >>
KeySlash == << "a", "/", "b" >>

\* No key of the model holds a regexp metacharacter.
FlatKeys == { KeyB, KeyAB, KeyHash, KeySlash }

\* The tiddlers callers put.
FlatTiddlers ==
    { Tiddler(KeyB, Object(<< Field(NameTitle, Str(KeyB)) >>), TextHi, FALSE),
      Tiddler(KeyB, Object(<< Field(NameTitle, Str(KeyB)),
                              Field(NameTags, Arr1(MacroTagValue)) >>), TextYo, FALSE),
      Tiddler(KeyAB, Object(<< Field(NameTitle, Str(KeyAB)) >>), TextYo, FALSE),
      Tiddler(KeyHash, Object(<< Field(NameTitle, Str(KeyHash)) >>), TextHi, FALSE),
      Tiddler(KeySlash, Object(<< Field(NameTitle, Str(KeySlash)) >>), TextHi, FALSE),
      Tiddler(KeyB, Raw(<< "x" >>), TextHi, FALSE) }

ExtTid  == << ".", "t", "i", "d" >>
ExtMeta == << ".", "m", "e", "t", "a" >>

\* key + ".tid", key + ".meta", fmt.Sprintf("%s#%d", key, rev)
TidName(key)          == key \o ExtTid
MetaName(key)         == key \o ExtMeta
HistoryName(key, rev) == key \o << "#" >> \o Digits(rev)

HasSlash(name) == \E i \in 1..Len(name) : name[i] = "/"

\* os.Stat(filepath.Join(dir, name)) finds the file.
Exists(dir, name) == name \in DOMAIN dir

\* ioutil.WriteFile(filepath.Join(dir, name), data, 0644): its error, and
\* the directory after it.
WriteFileErr(dir, name) == HasSlash(name)

WriteFile(dir, name, data) ==
    IF WriteFileErr(dir, name) THEN dir
    ELSE [ n \in (DOMAIN dir) \cup { name } |-> IF n = name THEN data ELSE dir[n] ]

\* os.Remove(filepath.Join(dir, name)): its error, and the directory after it.
RemoveErr(dir, name) == ~Exists(dir, name)

Remove_Keep(dir, name) == dir

Remove(dir, name) == [ n \in (DOMAIN dir) \ { name } |-> dir[n] ]

\* ioutil.ReadFile(filepath.Join(dir, name))
ReadFile(dir, name) ==
    IF Exists(dir, name)
    THEN [ err |-> FALSE, data |-> dir[name] ]
    ELSE [ err |-> TRUE, data |-> EmptyBytes ]

\* The working directory of the process, where All looks for the text of a
\* macro tiddler: the store writes no file there.
Cwd == << >>

IsDigit(c) == \E n \in 1..10 : DigitChars[n] = c

DigitVal(c) == (CHOOSE n \in 1..10 : DigitChars[n] = c) - 1

\* strconv.Atoi(s) of a string without a sign.
RECURSIVE AtoiVal(_)
AtoiVal(s) ==
    IF s = << >> THEN 0
    ELSE 10 * AtoiVal(SubSeq(s, 1, Len(s) - 1)) + DigitVal(s[Len(s)])

Atoi(s) ==
    IF s # << >> /\ \A i \in 1..Len(s) : IsDigit(s[i])
    THEN [ err |-> FALSE, n |-> AtoiVal(s) ]
    ELSE [ err |-> TRUE, n |-> 0 ]

\* regexp.MatchString(key + "#\\d+", name) for a key without metacharacters:
\* the pattern is not anchored.
MatchKeyRevision(key, name) ==
    \E i \in 1..Len(name) :
        /\ i + Len(key) + 1 <= Len(name)
        /\ SubSeq(name, i, i + Len(key)) = key \o << "#" >>
        /\ IsDigit(name[i + Len(key) + 1])

\* regexp.MatchString(".meta", name): any character, then meta, anywhere.
MatchDotMeta(name) ==
    \E i \in 2..(Len(name) - 3) : SubSeq(name, i, i + 3) = << "m", "e", "t", "a" >>

\* strings.Split(name, "#")[1] of a name with a "#".
SplitSecond(name) ==
    LET hashes == { i \in 1..Len(name) : name[i] = "#" }
        first  == CHOOSE i \in hashes : \A j \in hashes : i <= j
        later  == hashes \ { first }
        stop   == IF later = {} THEN Len(name) + 1
                  ELSE CHOOSE i \in later : \A j \in later : i <= j
    IN  SubSeq(name, first + 1, stop - 1)

\* The greatest of a finite set of naturals, 0 for none.
Highest(S) == IF S = {} THEN 0 ELSE CHOOSE n \in S : \A m \in S : m <= n

FlatGetLastRevision(hist, key) ==
    LET files == { name \in DOMAIN hist : MatchKeyRevision(key, name) }
    IN  Highest({ Atoi(SplitSecond(file)).n : file \in files }) + 1

\* checkExt(s.tiddlersPath, ".meta"): filepath.Walk visits in lexical order.
checkExt(dir) == SortedSeq({ name \in DOMAIN dir : MatchDotMeta(name) })

\* file[0:len(file)-len(filepath.Ext(file))]
TrimExt(file) ==
    LET dots == { i \in 1..Len(file) : file[i] = "." }
    IN  IF dots = {} THEN file
        ELSE SubSeq(file, 1, (CHOOSE i \in dots : \A j \in dots : j <= i) - 1)

\* The tiddler All makes of a file of checkExt.
FlatAllFile(dir, file) ==
    LET meta == ReadFile(dir, file).data
        macro == IsMacro(meta)
    IN  [ Key |-> << >>, Meta |-> meta,
          Text |-> IF macro
                   THEN String(ReadFile(Cwd, TrimExt(file) \o ExtTid).data)
                   ELSE << >>,
          WithText |-> macro,
          from |-> file ]        \* the file the entry was read from

NoFlatLoc == [ rev |-> 0, data |-> EmptyBytes, at |-> 0 ]

NoFlatRet == [ err |-> "nil", rev |-> 0, t |-> ZeroTiddler, all |-> << >> ]

InitFlat ==
    /\ fFiles = << >>
    /\ fHist = << >>
    /\ fPc = [ p \in Procs |-> "idle" ]
    /\ fCall = [ p \in Procs |-> NoCall ]
    /\ fLoc = [ p \in Procs |-> NoFlatLoc ]
    /\ fRet = [ p \in Procs |-> NoFlatRet ]
    /\ fLog = << >>

\* The callers inside Put or Delete.
FlatWriting == { p \in Procs : fPc[p] # "idle" }

\* The event of the call of p that returns with rev and err.
FlatEvent(p, rev, err) ==
    [ op |-> fCall[p].op, key |-> fCall[p].key, rev |-> rev, err |-> err,
      at |-> fLoc[p].at ]

FlatGet(p, key) ==
    /\ UNCHANGED notFlat
    /\ fPc[p] = "idle"
    /\ fCall' = [ fCall EXCEPT ![p] = [ NoCall EXCEPT !.op = "get", !.key = key ] ]
    /\ LET meta == ReadFile(fFiles, MetaName(key))
           tiddler == ReadFile(fFiles, TidName(key))
       IN  fRet' = [ fRet EXCEPT ![p] =
               IF ~Exists(fFiles, TidName(key))
               THEN [ NoFlatRet EXCEPT !.err = "ErrNotFound",
                                       !.t = Tiddler(<< >>, EmptyBytes, << >>, TRUE) ]
               ELSE IF meta.err
               THEN [ NoFlatRet EXCEPT !.err = "PathError" ]
               ELSE [ NoFlatRet EXCEPT
                        !.t = Tiddler(<< >>, meta.data, String(tiddler.data), TRUE) ] ]
    /\ UNCHANGED << fFiles, fHist, fPc, fLoc, fLog >>

FlatAll(p) ==
    /\ UNCHANGED notFlat
    /\ fPc[p] = "idle"
    /\ fCall' = [ fCall EXCEPT ![p] = [ NoCall EXCEPT !.op = "all" ] ]
    /\ LET files == checkExt(fFiles)
       IN  fRet' = [ fRet EXCEPT ![p] =
               [ NoFlatRet EXCEPT
                   !.all = [ i \in 1..Len(files) |-> FlatAllFile(fFiles, files[i]) ] ] ]
    /\ UNCHANGED << fFiles, fHist, fPc, fLoc, fLog >>

\* json.Unmarshal, getLastRevision and json.Marshal.
FlatPutScan(p, t) ==
    /\ UNCHANGED notFlat
    /\ fPc[p] = "idle"
    /\ fCall' = [ fCall EXCEPT ![p] =
          [ op |-> "put", key |-> t.Key, meta |-> t.Meta, text |-> t.Text ] ]
    /\ LET u == UnmarshalMap(t.Meta)
       IN  IF u.err
           THEN /\ fRet' = [ fRet EXCEPT ![p] = [ NoFlatRet EXCEPT !.err = "json" ] ]
                /\ UNCHANGED << fPc, fLoc >>
           ELSE /\ Len(fLog) + Cardinality(FlatWriting) < FlatMaxOps
                /\ fPc' = [ fPc EXCEPT ![p] = "writeTid" ]
                /\ fLoc' = [ fLoc EXCEPT ![p] =
                      [ rev |-> FlatGetLastRevision(fHist, t.Key),
                        data |-> IF u.isnil THEN JsonNull ELSE MarshalMap(u.js),
                        at |-> Len(fLog) ] ]
                /\ fRet' = fRet
    /\ UNCHANGED << fFiles, fHist, fLog >>

FlatPutWriteTid(p) ==
    /\ UNCHANGED notFlat
    /\ fPc[p] = "writeTid"
    /\ fFiles' = WriteFile(fFiles, TidName(fCall[p].key), Bytes(fCall[p].text))
    /\ fPc' = [ fPc EXCEPT ![p] = "writeMeta" ]
    /\ UNCHANGED << fHist, fCall, fLoc, fRet, fLog >>

FlatPutWriteMeta(p) ==
    /\ UNCHANGED notFlat
    /\ fPc[p] = "writeMeta"
    /\ fFiles' = WriteFile(fFiles, MetaName(fCall[p].key), fCall[p].meta)
    /\ fPc' = [ fPc EXCEPT ![p] = "writeHistory" ]
    /\ UNCHANGED << fHist, fCall, fLoc, fRet, fLog >>

\* The last WriteFile, and return rev, nil.
FlatPutWriteHistory(p) ==
    /\ UNCHANGED notFlat
    /\ fPc[p] = "writeHistory"
    /\ fHist' = WriteFile(fHist, HistoryName(fCall[p].key, fLoc[p].rev), fLoc[p].data)
    /\ fRet' = [ fRet EXCEPT ![p] = [ NoFlatRet EXCEPT !.rev = fLoc[p].rev ] ]
    /\ fLog' = Append(fLog, FlatEvent(p, fLoc[p].rev, "nil"))
    /\ fPc' = [ fPc EXCEPT ![p] = "idle" ]
    /\ fLoc' = [ fLoc EXCEPT ![p] = NoFlatLoc ]
    /\ UNCHANGED << fFiles, fCall >>

\* os.Remove of the .tid file.
FlatDeleteTid(p, key) ==
    /\ UNCHANGED notFlat
    /\ fPc[p] = "idle"
    /\ Len(fLog) + Cardinality(FlatWriting) < FlatMaxOps
    /\ fCall' = [ fCall EXCEPT ![p] = [ NoCall EXCEPT !.op = "delete", !.key = key ] ]
    /\ IF RemoveErr(fFiles, TidName(key))
       THEN /\ fRet' = [ fRet EXCEPT ![p] = [ NoFlatRet EXCEPT !.err = "PathError" ] ]
            /\ fLog' = Append(fLog, [ op |-> "delete", key |-> key, rev |-> 0,
                                      err |-> "PathError", at |-> Len(fLog) ])
            /\ UNCHANGED << fFiles, fPc, fLoc >>
       ELSE /\ fFiles' = Remove(fFiles, TidName(key))
            /\ fPc' = [ fPc EXCEPT ![p] = "removeMeta" ]
            /\ fLoc' = [ fLoc EXCEPT ![p] = [ NoFlatLoc EXCEPT !.at = Len(fLog) ] ]
            /\ UNCHANGED << fRet, fLog >>
    /\ UNCHANGED fHist

\* os.Remove of the .meta file, and return.
FlatDeleteMeta(p) ==
    /\ UNCHANGED notFlat
    /\ fPc[p] = "removeMeta"
    /\ LET name == MetaName(fCall[p].key)
           err == IF RemoveErr(fFiles, name) THEN "PathError" ELSE "nil"
       IN  /\ fFiles' = IF err = "nil" THEN Remove(fFiles, name) ELSE fFiles
           /\ fRet' = [ fRet EXCEPT ![p] = [ NoFlatRet EXCEPT !.err = err ] ]
           /\ fLog' = Append(fLog, FlatEvent(p, 0, err))
    /\ fPc' = [ fPc EXCEPT ![p] = "idle" ]
    /\ fLoc' = [ fLoc EXCEPT ![p] = NoFlatLoc ]
    /\ UNCHANGED << fHist, fCall >>

\* The steps of the calls that write.
FlatWriteStep(p) ==
    \/ \E t \in FlatTiddlers : FlatPutScan(p, t)
    \/ FlatPutWriteTid(p)
    \/ FlatPutWriteMeta(p)
    \/ FlatPutWriteHistory(p)
    \/ \E key \in FlatKeys : FlatDeleteTid(p, key)
    \/ FlatDeleteMeta(p)

FlatStep(p) ==
    \/ \E key \in FlatKeys : FlatGet(p, key)
    \/ FlatAll(p)
    \/ FlatWriteStep(p)

\* Concurrent writers.
NextFlat == \E p \in Procs : FlatWriteStep(p)

\* One caller: every call returns before the next begins.
NextFlatSeq == FlatStep("p1")

(***************************************************************************)
(* Flat-file backend: properties                                           *)
(***************************************************************************)

\* The number of Puts of key among the first n calls that returned.
FlatPutsBefore(key, n) == Cardinality({ j \in 1..n : IsPutOf(fLog[j], key) })

\* C12: with one caller, the revision a Put of a key returns is 1 plus the
\* number of Puts of that key before it, whatever was put on other keys.
C12_FlatRevisionsCount ==
    \A i \in 1..Len(fLog) :
        fLog[i].op = "put" =>
            fLog[i].rev = 1 + FlatPutsBefore(fLog[i].key, i - 1)

\* C13: two Puts of one key of which the second began before the first
\* returned do not return the same revision.
C13_FlatConcurrentPutsDiffer ==
    \A i \in 1..Len(fLog) : \A j \in (i + 1)..Len(fLog) :
        (/\ fLog[i].op = "put"
         /\ IsPutOf(fLog[j], fLog[i].key)
         /\ fLog[j].at < i) =>
            fLog[i].rev # fLog[j].rev

\* The index of the last call on key that returned, or 0.
FlatLastWrite(key) ==
    LET on == { i \in 1..Len(fLog) : fLog[i].key = key }
    IN  IF on = {} THEN 0 ELSE CHOOSE i \in on : \A j \in on : j <= i

\* The keys whose last call is a Delete that returned nil.
FlatDeleted ==
    { key \in FlatKeys :
        /\ FlatLastWrite(key) > 0
        /\ fLog[FlatLastWrite(key)].op = "delete"
        /\ fLog[FlatLastWrite(key)].err = "nil" }

\* After Delete of a key returned nil, Get of the key returns ErrNotFound
\* and All has no entry read from a file of the key.
FlatDeletedIsGone ==
    \A p \in Procs :
        /\ (fPc[p] = "idle" /\ fCall[p].op = "get" /\ fCall[p].key \in FlatDeleted) =>
               fRet[p].err = "ErrNotFound"
        /\ (fPc[p] = "idle" /\ fCall[p].op = "all") =>
               \A key \in FlatDeleted :
                   \A i \in 1..Len(fRet[p].all) :
                       fRet[p].all[i].from \notin { TidName(key), MetaName(key) }

\* A step of a Delete call leaves every history file as it was.
FlatDeleteKeepsHistory ==
    (\E p \in Procs : fCall'[p].op = "delete" /\ << fPc[p], fLog >> # << fPc'[p], fLog' >>)
        => fHist' = fHist

\* C14: with one caller, after Delete of a key with a live record returned
\* nil, Get of the key returns ErrNotFound and All has no entry of the key,
\* and the Delete leaves the history files unchanged.
C14_FlatDeletedIsGone == []FlatDeletedIsGone /\ [][FlatDeleteKeepsHistory]_vars

\* A Get after a Delete that returned nil, of a key whose history is kept.
C14_Witness ==
    /\ fPc["p1"] = "idle"
    /\ fCall["p1"].op = "get"
    /\ fCall["p1"].key \in FlatDeleted
    /\ fRet["p1"].err = "ErrNotFound"
    /\ \E rev \in 1..FlatMaxOps : Exists(fHist, HistoryName(fCall["p1"].key, rev))

\* C15 in the BoltDB backend: a Delete of a key no Put was committed on
\* returns ErrNotFound.
BoltDeleteMissing ==
    \A p \in Procs :
        (/\ Finished(p, "delete")
         /\ \A i \in 1..Len(bLog) : ~IsPutOf(bLog[i], bCall[p].key)) =>
            bRet[p].err = "ErrNotFound"

\* C15 in the SQLite backend: a Delete of a key no Put was called on returns
\* ErrNotFound.
SqliteDeleteMissing ==
    (/\ sCall.op = "delete"
     /\ \A i \in 1..Len(sLog) : ~IsPutOf(sLog[i], sCall.key)) =>
        sRet.err = "ErrNotFound"

\* C15 in the flat-file backend: a Delete of a key no Put was called on
\* returns ErrNotFound.
FlatDeleteMissing ==
    \A i \in 1..Len(fLog) :
        (/\ fLog[i].op = "delete"
         /\ \A j \in 1..Len(fLog) : ~IsPutOf(fLog[j], fLog[i].key)
         /\ \A p \in Procs : fPc[p] = "idle" \/ fCall[p].key # fLog[i].key) =>
            fLog[i].err = "ErrNotFound"

\* C15: in every backend, Delete of a key without a live record returns
\* ErrNotFound, not nil.
C15_DeleteMissing == BoltDeleteMissing /\ SqliteDeleteMissing /\ FlatDeleteMissing

(***************************************************************************)
(* Tiddler.MarshalJSON (package store)                                     *)
(*                                                                         *)
(* The tiddlers are those a store can hand to the HTTP handlers: the       *)
(* numbers of a Meta are small integers, as json.Marshal of putTiddler     *)
(* writes them.                                                            *)
(***************************************************************************)

AuthorX == Field(NameAuthor, Str(<< "x" >>))
TitleA  == Field(NameTitle, Str(KeyA))

MarshalMetas ==
    { Object(<< AuthorX >>),
      Object(<< TitleA, Field(NameTags, Arr1(MacroTagValue)) >>),
      Object(<< Field(NameText, Str(TextYo)), AuthorX >>),
      Object(<< TitleA, AuthorX >>),
      Object(<< Field(NameRevision, Num(1)), TitleA >>),
      Object(<< >>),
      JsonNull,
      JsonArray,
      Raw(<< "x" >>),
      EmptyBytes }

MarshalTexts == { << >>, TextHi, TextYo }

MarshalTiddlers ==
    { Tiddler(<< >>, meta, text, withText) :
        meta \in MarshalMetas, text \in MarshalTexts, withText \in BOOLEAN }

NoMarshalRet == [ called |-> FALSE, ret |-> NoMarshal ]

MarshalIdle ==
    /\ mT = ZeroTiddler
    /\ mRet = NoMarshalRet

\* The tiddler is any of MarshalTiddlers.
InitMarshal ==
    /\ mT \in MarshalTiddlers
    /\ mRet = NoMarshalRet

\* t.MarshalJSON()
MarshalCall ==
    /\ UNCHANGED notMarshal
    /\ ~mRet.called
    /\ mRet' = [ called |-> TRUE, ret |-> MarshalJSON(mT) ]
    /\ UNCHANGED mT

NextMarshal == MarshalCall

\* The members of a JSON object but text, as a map.
WithoutText(b) ==
    LET js == FieldMap(b.fields)
    IN  [ nm \in (DOMAIN js) \ { NameText } |-> js[nm] ]

NoDuplicateNames(b) ==
    \A i \in 1..Len(b.fields) : \A j \in 1..Len(b.fields) :
        b.fields[i].name = b.fields[j].name => i = j

ApiMaxAll == 2

Backends == { "bolt", "sqlite", "flatFile" }

\* A backend's init() with store.MustOpen as it finds it: its panic, and
\* store.MustOpen after it.
InitResult_LastWins(mustOpen, pkg) == [ panic |-> FALSE, MustOpen |-> pkg ]

InitResult(mustOpen, pkg) ==
    IF mustOpen # "nil"
    THEN [ panic |-> TRUE, MustOpen |-> mustOpen ]
    ELSE [ panic |-> FALSE, MustOpen |-> pkg ]

KeyDollar == << "$", ":", "/", "b" >>

ApiKeys == { KeyA, KeyDollar }

Methods == { "GET", "PUT", "DELETE", "POST" }

NameBag == << "b", "a", "g" >>

\* The bodies of PUT requests.
ApiBodies ==
    { Object(<< AuthorX, Field(NameText, Str(TextHi)) >>),
      Object(<< Field(NameText, Str(TextYo)), TitleA >>),
      Object(<< TitleA >>),
      Object(<< Field(NameBag, Str(<< "x" >>)), Field(NameText, Str(TextHi)) >>),
      Object(<< Field(NameText, Num(1)), AuthorX >>),
      JsonNull,
      JsonArray,
      Raw(<< "x" >>),
      EmptyBytes }

\* What a store returns.
StoreRet(err, rev, t, all) == [ err |-> err, rev |-> rev, t |-> t, all |-> all ]

\* Get: ErrNotFound, another error, or a tiddler.
GetRets ==
    { StoreRet("ErrNotFound", 0, ZeroTiddler, << >>),
      StoreRet("io", 0, ZeroTiddler, << >>),
      StoreRet("nil", 0, ZeroTiddler, << >>),
      StoreRet("nil", 0, Tiddler(<< >>, Object(<< AuthorX >>), TextHi, TRUE), << >>),
      StoreRet("nil", 0, Tiddler(<< >>, Object(<< Field(NameText, Str(TextYo)), AuthorX >>),
                                 TextHi, TRUE), << >>),
      StoreRet("nil", 0, Tiddler(<< >>, EmptyBytes, << >>, TRUE), << >>),
      StoreRet("nil", 0, Tiddler(<< >>, JsonNull, TextHi, TRUE), << >>) }

\* Put: a revision, or an error.
PutRets ==
    { StoreRet("nil", 1, ZeroTiddler, << >>),
      StoreRet("nil", 12, ZeroTiddler, << >>),
      StoreRet("io", 0, ZeroTiddler, << >>) }

\* Delete: nil, or an error.
DeleteRets ==
    { StoreRet("nil", 0, ZeroTiddler, << >>),
      StoreRet("ErrNotFound", 0, ZeroTiddler, << >>) }

\* The tiddlers of an All: skinny ones, whose Meta has no macro tag (one of
\* them with no Meta at all), and fat ones, whose Meta has it (one of them
\* with a Meta that is not JSON).
AllTiddlers ==
    { Tiddler(<< >>, Object(<< AuthorX >>), << >>, FALSE),
      Tiddler(<< >>, Object(<< TitleA, Field(NameTags, Arr1(MacroTagValue)) >>),
              TextHi, TRUE),
      Tiddler(<< >>, EmptyBytes, << >>, FALSE),
      Tiddler(<< >>, Raw(<< "x" >> \o MacroTag), TextYo, TRUE) }

RECURSIVE SeqsUpTo(_, _)
SeqsUpTo(S, n) ==
    IF n = 0 THEN { << >> }
    ELSE LET shorter == SeqsUpTo(S, n - 1)
         IN  shorter \cup { Append(q, x) : q \in shorter, x \in S }

\* All: tiddlers, or an error.
AllRets ==
    { StoreRet("nil", 0, ZeroTiddler, all) : all \in SeqsUpTo(AllTiddlers, ApiMaxAll) }
        \cup { StoreRet("io", 0, ZeroTiddler, << >>) }

NoRets == { StoreRet("nil", 0, ZeroTiddler, << >>) }

\* url.QueryEscape of one character.
EscapeChar(c) ==
    IF c = "$" THEN << "%", "2", "4" >>
    ELSE IF c = ":" THEN << "%", "3", "A" >>
    ELSE IF c = "/" THEN << "%", "2", "F" >>
    ELSE IF c = "#" THEN << "%", "2", "3" >>
    ELSE IF c = "%" THEN << "%", "2", "5" >>
    ELSE << c >>

\* url.QueryEscape(s) for s of letters, digits and the characters above.
RECURSIVE QueryEscape(_)
QueryEscape(s) ==
    IF s = << >> THEN << >> ELSE EscapeChar(Head(s)) \o QueryEscape(Tail(s))

\* md5.Sum(b) printed with %032x: the digest stands for the bytes it is of.
MD5Hex(b) == [ md5of |-> Render(b) ]

\* fmt.Sprintf(`"bag/%s/%d:%032x"`, url.QueryEscape(key), rev, md5.Sum(meta))
ETag(key, rev, meta) ==
    [ set |-> TRUE, bag |-> NameBag, key |-> QueryEscape(key), rev |-> Digits(rev),
      sum |-> MD5Hex(meta) ]

NoETag ==
    [ set |-> FALSE, bag |-> << >>, key |-> << >>, rev |-> << >>,
      sum |-> MD5Hex(EmptyBytes) ]

NoReq == [ handler |-> "none", method |-> "", key |-> << >>, body |-> EmptyBytes ]

NoResp ==
    [ status |-> 0, contentType |-> "", etag |-> NoETag, text |-> "",
      body |-> << >>, panic |-> FALSE ]

\* http.Error(w, text, status)
httpError(text, status) ==
    [ NoResp EXCEPT !.status = status, !.text = text,
                    !.contentType = "text/plain; charset=utf-8" ]

internalError == httpError("internal server error", 500)

methodNotAllowed == httpError("method not allowed", 405)

\* w.Header().Set("Content-Type", "application/json"); w.Write(data)
WriteJSON(chars) ==
    [ NoResp EXCEPT !.status = 200, !.contentType = "application/json",
                    !.body = chars ]

\* The handler panicked.
Panicked == [ NoResp EXCEPT !.panic = TRUE ]

\* rw.written after the hook, and the calls of f(w, r).
NoAuth == [ written |-> FALSE, invoked |-> 0 ]

ApiIdle ==
    /\ rPending = {}
    /\ rMustOpen = "nil"
    /\ rInits = << >>
    /\ rState = "init"
    /\ aStore = "nil"
    /\ aReq = NoReq
    /\ aCalls = << >>
    /\ aResp = NoResp
    /\ aHook = FALSE
    /\ aAuth = NoAuth

\* Any set of backend packages is linked into the program.
InitApi ==
    /\ rPending \in SUBSET Backends
    /\ rMustOpen = "nil"
    /\ rInits = << >>
    /\ rState = "init"
    /\ aStore = "nil"
    /\ aReq = NoReq
    /\ aCalls = << >>
    /\ aResp = NoResp
    /\ aHook = FALSE
    /\ aAuth = NoAuth

\* init() of backend package pkg: a panic ends the process.
BackendInit(pkg) ==
    /\ UNCHANGED notApi
    /\ rState = "init"
    /\ pkg \in rPending
    /\ LET r == InitResult(rMustOpen, pkg)
       IN  /\ rMustOpen' = r.MustOpen
           /\ rInits' = Append(rInits, [ pkg |-> pkg, panic |-> r.panic ])
           /\ rState' = IF r.panic THEN "panicked" ELSE "init"
    /\ rPending' = rPending \ { pkg }
    /\ UNCHANGED << aStore, aReq, aCalls, aResp, aHook, aAuth >>

\* main: api.Store = store.MustOpen(*dataSource), where the call of a nil
\* func panics; then api.Authenticate is set if a password was given.
MainOpen ==
    /\ UNCHANGED notApi
    /\ rState = "init"
    /\ rPending = {}
    /\ IF rMustOpen = "nil"
       THEN rState' = "panicked" /\ aStore' = aStore /\ aHook' = aHook
       ELSE rState' = "serving" /\ aStore' = rMustOpen /\ aHook' \in BOOLEAN
    /\ UNCHANGED << rPending, rMustOpen, rInits, aReq, aCalls, aResp, aAuth >>

\* A call on api.Store and what it returned.
StoreCall(op, key, t, ret) == [ op |-> op, key |-> key, t |-> t, ret |-> ret ]

\* ListItems without the two continue statements.
RECURSIVE ListItems_NoSkip(_, _)
ListItems_NoSkip(tiddlers, sep) ==
    IF tiddlers = << >> THEN << >>
    ELSE sep \o Render(MarshalJSON(Head(tiddlers)).out)
         \o ListItems_NoSkip(Tail(tiddlers), << "," >>)

\* The bytes list writes between [ and ] for tiddlers, after sep.
RECURSIVE ListItems(_, _)
ListItems(tiddlers, sep) ==
    IF tiddlers = << >> THEN << >>
    ELSE LET t == Head(tiddlers)
         IN  IF IsEmpty(t.Meta) \/ MarshalJSON(t).err # "nil"
             THEN ListItems(Tail(tiddlers), sep)
             ELSE sep \o Render(MarshalJSON(t).out) \o ListItems(Tail(tiddlers), << "," >>)

\* The tiddlers of a list whose MarshalJSON panics.
ListPanics(tiddlers) ==
    \E i \in 1..Len(tiddlers) :
        ~IsEmpty(tiddlers[i].Meta) /\ MarshalJSON(tiddlers[i]).panic

list(method, ret) ==
    /\ UNCHANGED notApi
    /\ rState = "serving"
    /\ aReq' = [ NoReq EXCEPT !.handler = "list", !.method = method ]
    /\ aCalls' = << StoreCall("all", << >>, ZeroTiddler, ret) >>
    /\ aResp' = IF ret.err # "nil" THEN internalError
                ELSE IF ListPanics(ret.all) THEN Panicked
                ELSE WriteJSON(<< "[" >> \o ListItems(ret.all, << >>) \o << "]" >>)
    /\ UNCHANGED << rPending, rMustOpen, rInits, rState, aStore >>

\* The response of getTiddler to what Store.Get returned.
getTiddler(ret) ==
    IF ret.err # "nil" THEN internalError
    ELSE LET data == MarshalJSON(ret.t)
         IN  IF data.panic THEN Panicked
             ELSE IF data.err # "nil" THEN internalError
             ELSE WriteJSON(Render(data.out))

\* putTiddlerArg without delete(js, "text") and js["bag"] = "bag".
putTiddlerArg_BodyAsMeta(key, body) ==
    [ call |-> TRUE, resp |-> NoResp, t |-> Tiddler(key, body, << >>, FALSE) ]

\* putTiddler up to its call of Store.Put: the response without a call, or
\* the tiddler it puts.
putTiddlerArg(key, body) ==
    LET d == UnmarshalMap(body)
        js == MapSet(d.js, NameBag, Str(NameBag))
        text == IF NameText \in DOMAIN js /\ js[NameText].t = "str"
                THEN js[NameText].s ELSE << >>
        rest == [ nm \in (DOMAIN js) \ { NameText } |-> js[nm] ]
    IN  IF d.err THEN [ call |-> FALSE, resp |-> httpError("bad request", 400),
                        t |-> ZeroTiddler ]
        ELSE IF d.isnil THEN [ call |-> FALSE, resp |-> Panicked, t |-> ZeroTiddler ]
        ELSE [ call |-> TRUE, resp |-> NoResp,
               t |-> Tiddler(key, MarshalMap(rest), text, FALSE) ]

\* The response of putTiddler to what Store.Put returned for tiddler t.
putTiddlerResp(t, ret) ==
    IF ret.err # "nil" THEN internalError
    ELSE [ NoResp EXCEPT !.status = 204, !.etag = ETag(t.Key, ret.rev, t.Meta) ]

tiddler(method, key, body, ret) ==
    /\ UNCHANGED notApi
    /\ rState = "serving"
    /\ aReq' = [ handler |-> "tiddler", method |-> method, key |-> key,
                 body |-> IF method = "PUT" THEN body ELSE EmptyBytes ]
    /\ \/ /\ method = "GET"
          /\ ret \in GetRets
          /\ aCalls' = << StoreCall("get", key, ZeroTiddler, ret) >>
          /\ aResp' = getTiddler(ret)
       \/ /\ method = "PUT"
          /\ LET a == putTiddlerArg(key, body)
             IN  IF a.call
                 THEN /\ ret \in PutRets
                      /\ aCalls' = << StoreCall("put", key, a.t, ret) >>
                      /\ aResp' = putTiddlerResp(a.t, ret)
                 ELSE /\ ret \in NoRets
                      /\ aCalls' = << >>
                      /\ aResp' = a.resp
       \/ /\ method \notin { "GET", "PUT" }
          /\ ret \in NoRets
          /\ aCalls' = << >>
          /\ aResp' = methodNotAllowed
    /\ UNCHANGED << rPending, rMustOpen, rInits, rState, aStore >>

\* The response of remove to what Store.Delete returned, always 204.
removeResp_Always204(ret) == [ NoResp EXCEPT !.status = 204 ]

\* The response of remove to what Store.Delete returned.
removeResp(ret) ==
    IF ret.err # "nil" THEN internalError ELSE [ NoResp EXCEPT !.status = 204 ]

remove(method, key, ret) ==
    /\ UNCHANGED notApi
    /\ rState = "serving"
    /\ aReq' = [ NoReq EXCEPT !.handler = "remove", !.method = method, !.key = key ]
    /\ IF method # "DELETE"
       THEN /\ ret \in NoRets
            /\ aCalls' = << >>
            /\ aResp' = methodNotAllowed
       ELSE /\ ret \in DeleteRets
            /\ aCalls' = << StoreCall("delete", key, ZeroTiddler, ret) >>
            /\ aResp' = removeResp(ret)
    /\ UNCHANGED << rPending, rMustOpen, rInits, rState, aStore >>

AnyRets == GetRets \cup PutRets \cup DeleteRets \cup NoRets

Handlers == { "list", "tiddler", "remove" }

\* What a hook that writes does: w.WriteHeader(http.StatusUnauthorized), as
\* the hook of main, or w.Write of a body.
HookWrites == { "WriteHeader", "Write" }

HookResp(out) ==
    IF out = "WriteHeader" THEN [ NoResp EXCEPT !.status = 401 ]
    ELSE [ NoResp EXCEPT !.status = 200, !.body = << "x" >> ]

\* withAuth(f) where Authenticate is nil or has written nothing: f(w, r).
withAuth(f) ==
    /\ f
    /\ aAuth' = [ written |-> FALSE, invoked |-> 1 ]
    /\ aHook' = aHook

\* withAuthWritten that goes on to a handler that calls the store.
withAuthWritten_CallsHandler(handler, method, key, out) ==
    /\ UNCHANGED notApi
    /\ rState = "serving"
    /\ aHook
    /\ aReq' = [ NoReq EXCEPT !.handler = handler, !.method = method, !.key = key ]
    /\ aCalls' = << StoreCall("all", << >>, ZeroTiddler, StoreRet("nil", 0, ZeroTiddler, << >>)) >>
    /\ aResp' = HookResp(out)
    /\ aAuth' = [ written |-> TRUE, invoked |-> 1 ]
    /\ UNCHANGED << rPending, rMustOpen, rInits, rState, aStore, aHook >>

\* withAuth(f) where Authenticate has written to the response: rw.written
\* is set and f is not called.
withAuthWritten(handler, method, key, out) ==
    /\ UNCHANGED notApi
    /\ rState = "serving"
    /\ aHook
    /\ aReq' = [ NoReq EXCEPT !.handler = handler, !.method = method, !.key = key ]
    /\ aCalls' = << >>
    /\ aResp' = HookResp(out)
    /\ aAuth' = [ written |-> TRUE, invoked |-> 0 ]
    /\ UNCHANGED << rPending, rMustOpen, rInits, rState, aStore, aHook >>

NextApi ==
    \/ \E pkg \in Backends : BackendInit(pkg)
    \/ MainOpen
    \/ \E method \in Methods, ret \in AllRets : withAuth(list(method, ret))
    \/ \E method \in Methods, key \in ApiKeys, body \in ApiBodies, ret \in AnyRets :
           withAuth(tiddler(method, key, body, ret))
    \/ \E method \in Methods, key \in ApiKeys, ret \in AnyRets :
           withAuth(remove(method, key, ret))
    \/ \E handler \in Handlers, method \in Methods, key \in ApiKeys, out \in HookWrites :
           withAuthWritten(handler, method, key, out)

(***************************************************************************)
(* Startup and HTTP handlers: properties                                   *)
(***************************************************************************)

\* C16: the first init() sets store.MustOpen to its backend, every later
\* init() panics, and store.MustOpen stays the backend of the first.
C16_FirstInitWins ==
    /\ rInits = << >> => rMustOpen = "nil"
    /\ rInits # << >> => ~rInits[1].panic /\ rMustOpen = rInits[1].pkg
    /\ \A i \in 2..Len(rInits) : rInits[i].panic

\* A second init() has run.
C16_Witness ==
    /\ Len(rInits) = 2
    /\ rInits[2].pkg # rInits[1].pkg
    /\ rState = "panicked"
    /\ rMustOpen = rInits[1].pkg

\* The last request was method on handler and its handler called the store.
Served(handler, method) ==
    aReq.handler = handler /\ aReq.method = method /\ aCalls # << >>

\* C18: GET of a tiddler for which Store.Get returns ErrNotFound is answered
\* 404, and one for which it returns another error 500.
C18_GetNotFoundIs404 ==
    Served("tiddler", "GET") =>
        /\ aCalls[1].ret.err = "ErrNotFound" => aResp.status = 404
        /\ aCalls[1].ret.err \notin { "nil", "ErrNotFound" } => aResp.status = 500

\* The keys as url.QueryEscape writes them.
EscapedKey(key) ==
    IF key = KeyDollar THEN << "%", "2", "4", "%", "3", "A", "%", "2", "F", "b" >>
    ELSE key

\* The revisions of PutRets in decimal.
DecimalRev(rev) == IF rev = 12 THEN << "1", "2" >> ELSE << "1" >>

\* The members of a request body but text, with bag set to "bag".
ExpectedMeta(body) ==
    LET js == FieldMap(body.fields)
    IN  [ nm \in ((DOMAIN js) \ { NameText }) \cup { NameBag } |->
            IF nm = NameBag THEN Str(NameBag) ELSE js[nm] ]

\* The text member of a request body if it is a string, or the empty string.
ExpectedText(body) ==
    LET js == FieldMap(body.fields)
    IN  IF NameText \in DOMAIN js /\ js[NameText].t = "str"
        THEN js[NameText].s ELSE << >>

RECURSIVE Joined(_)
Joined(tiddlers) ==
    IF tiddlers = << >> THEN << >>
    ELSE Render(MarshalJSON(Head(tiddlers)).out)
         \o (IF Len(tiddlers) > 1 THEN << "," >> ELSE << >>)
         \o Joined(Tail(tiddlers))

ArrayOf(tiddlers) == << "[" >> \o Joined(tiddlers) \o << "]" >>

\* MarshalJSON of t returns bytes.
Projects(t) == ~MarshalJSON(t).panic /\ MarshalJSON(t).err = "nil"

Listed(t) == ~IsEmpty(t.Meta) /\ Projects(t)

ListedOf(tiddlers) == SelectSeq(tiddlers, Listed)

C21_RemoveTiddler ==
    (aReq.handler = "remove" /\ aAuth.invoked = 1) =>
        /\ aReq.method = "DELETE" =>
               /\ Len(aCalls) = 1
               /\ aCalls[1].op = "delete"
               /\ aCalls[1].key = aReq.key
               /\ aResp.status = 204 <=> aCalls[1].ret.err = "nil"
               /\ aCalls[1].ret.err # "nil" => aResp.status = 500
        /\ aReq.method # "DELETE" =>
               /\ aResp.status = 405
               /\ aCalls = << >>

\* A DELETE for which Store.Delete returned an error, answered 500.
C21_Witness ==
    /\ aReq.handler = "remove" /\ aReq.method = "DELETE"
    /\ aReq.key = KeyDollar
    /\ aCalls # << >>
    /\ aCalls[1].ret.err # "nil"
    /\ aResp.status = 500

\* C26: when Authenticate is set and writes to the response of a request,
\* the handler is not invoked and the store is not called; when it is nil or
\* writes nothing, the handler is invoked once and calls the store at most
\* once.
C26_AuthGate ==
    aReq.handler # "none" =>
        /\ ~aHook => ~aAuth.written
        /\ aAuth.written =>
               /\ aAuth.invoked = 0
               /\ aCalls = << >>
               /\ aResp.etag = NoETag /\ aResp.contentType = ""
        /\ ~aAuth.written =>
               /\ aAuth.invoked = 1
               /\ Len(aCalls) <= 1

\* A PUT the hook answered 401.
C26_Witness ==
    /\ aHook
    /\ aReq.handler = "tiddler" /\ aReq.method = "PUT"
    /\ aAuth.written
    /\ aResp.status = 401
    /\ aCalls = << >>

\* C22: an operation called with an already-cancelled context returns a
\* Cancelled error, and a cancelled Put or Delete writes nothing: it is
\* not among the calls that returned nil.
C22_CancelledIsRefused ==
    (sCtx = "cancelled" /\ sCall.op # "none") =>
        /\ sRet.err = "cancelled"
        /\ sCall.op \in { "put", "delete" } =>
               \/ sLog = << >>
               \/ sLog[Len(sLog)].op # sCall.op
               \/ sLog[Len(sLog)].key # sCall.key

\* C23: a flat-file Put returns a nil error only when its three files, the
\* .tid file, the .meta file and the history file of the revision it
\* returned, were all written.
C23_FlatPutReportsFailure ==
    \A p \in Procs :
        (fPc[p] = "idle" /\ fCall[p].op = "put" /\ fRet[p].err = "nil") =>
            /\ Exists(fFiles, TidName(fCall[p].key))
            /\ Exists(fFiles, MetaName(fCall[p].key))
            /\ Exists(fHist, HistoryName(fCall[p].key, fRet[p].rev))

\* The keys whose last call that returned nil is a Put.
FlatLive ==
    { key \in FlatKeys :
        LET ok == { i \in 1..Len(fLog) : fLog[i].key = key /\ fLog[i].err = "nil" }
        IN  /\ ok # {}
            /\ fLog[CHOOSE i \in ok : \A j \in ok : j <= i].op = "put" }

\* C25: with one caller, flat-file All returns exactly one tiddler per live
\* key, read from the key's .meta file: fat with the text of the key's .tid
\* file, which the most recent Put wrote, when the metadata is macro-tagged,
\* skinny otherwise; no entry is read from a .tid file.
C25_FlatAllFromMeta ==
    (fPc["p1"] = "idle" /\ fCall["p1"].op = "all") =>
        LET all == fRet["p1"].all
        IN  /\ \A k \in FlatLive :
                   Cardinality({ i \in 1..Len(all) : all[i].from = MetaName(k) }) = 1
            /\ \A i \in 1..Len(all) :
                   \E k \in FlatLive :
                       /\ all[i].from = MetaName(k)
                       /\ all[i].Meta = ReadFile(fFiles, MetaName(k)).data
                       /\ all[i].WithText = IsMacro(all[i].Meta)
                       /\ all[i].Text = IF all[i].WithText
                                        THEN String(ReadFile(fFiles, TidName(k)).data)
                                        ELSE << >>

\* C27: Put of a tiddler whose Meta is not a JSON object returns an error,
\* assigns no revision and writes nothing, so that every tiddler Get or All
\* returns has a JSON object as Meta.
C27_PutNonObjectRejected ==
    /\ (sCall.op = "put" /\ sCall.meta.kind # "object") =>
           /\ sRet.err # "nil"
           /\ sRet.rev = 0
    /\ \A i \in 1..Len(sLog) : sLog[i].op = "put" => sLog[i].meta.kind = "object"
    /\ \A i \in 1..Len(sRows) : sRows[i].meta.kind = "object"
    /\ (sCall.op = "get" /\ sRet.err = "nil") => sRet.t.Meta.kind = "object"
    /\ sCall.op = "all" =>
           \A i \in 1..Len(sRet.all) : sRet.all[i].Meta.kind = "object"

\* The row a Get that returned nil has read is one a Put of its key wrote.
SqliteGetIsolated ==
    (sCall.op = "get" /\ sRet.err = "nil") =>
        sRows[FirstMatch(sRows, GetPattern(sCall.key))].id \in SqlitePutIds(sCall.key)

\* The rows a Delete removes are rows a Put of its key wrote.
SqliteDeleteIsolated ==
    (sCall'.op = "delete" /\ sRows' # sRows) =>
        { sRows[i].id : i \in 1..Len(sRows) } \ { sRows'[i].id : i \in 1..Len(sRows') }
            \subseteq SqlitePutIds(sCall'.key)

\* C28: sqlite Get(k) only returns a record written by a Put with Key = k,
\* and Delete(k) only removes rows written by a Put with Key = k.
C28_SqliteKeyIsolation == []SqliteGetIsolated /\ [][SqliteDeleteIsolated]_vars

(***************************************************************************)
(* BoltDB backend: the cursor scan of All over titles that contain "|1"   *)
(***************************************************************************)

KeyA1 == << "a", "|", "1" >>

ScanKeys == { KeyA, KeyA1 }

ScanTiddlers ==
    { Tiddler(KeyA, Object(<< Field(NameTitle, Str(KeyA)) >>), TextHi, FALSE),
      Tiddler(KeyA, Object(<< Field(NameTags, Arr1(MacroTagValue)) >>), TextYo, FALSE),
      Tiddler(KeyA1, Object(<< Field(NameAuthor, Str(<< "x" >>)) >>), TextHi, FALSE),
      Tiddler(KeyA1, Object(<< Field(NameAuthor, Str(<< "x" >>)) >>), << >>, FALSE) }

\* One caller at a time on the bolt store, with the titles "a" and "a|1".
NextBoltScan ==
    \/ \E t \in ScanTiddlers : BoltPutBegin("p1", t)
    \/ BoltPutUpdate("p1")
    \/ BoltPutCommit("p1")
    \/ \E key \in ScanKeys : BoltDeleteUpdate("p1", key)
    \/ BoltDeleteCommit("p1")
    \/ \E key \in ScanKeys : BoltGetMeta("p1", key)
    \/ BoltGetText("p1")
    \/ BoltAll("p1")
    \/ BoltReturn("p1")

\* The titles whose last committed write is a Put.
ScanLive ==
    { k \in ScanKeys : LastWrite(k, Now) # 0 /\ bLog[LastWrite(k, Now)].op = "put" }

\* C24: the cursor scan of All pairs each metadata entry with the text entry
\* of the same title, also for titles containing "|1": All returns exactly
\* one tiddler per live title, read from that title's metadata entry, with
\* that title's text when it is fat, and nothing for deleted titles.
C24_ScanPairs ==
    Finished("p1", "all") =>
        LET all == bRet["p1"].all
        IN  /\ \A k \in ScanLive :
                   Cardinality({ i \in 1..Len(all) : all[i].from = MetaKey(k) }) = 1
            /\ \A i \in 1..Len(all) :
                   \E k \in ScanLive :
                       /\ all[i].from = MetaKey(k)
                       /\ all[i].Meta = bLive[MetaKey(k)]
                       /\ all[i].WithText => all[i].Text = String(bLive[TextKey(k)])

(***************************************************************************)
(* Specifications                                                          *)
(***************************************************************************)

Init == InitBolt /\ InitSqlite /\ InitFlat /\ MarshalIdle /\ ApiIdle

SpecBolt == Init /\ [][NextBolt]_vars

SpecBoltScan == Init /\ [][NextBoltScan]_vars

SpecSqlite == Init /\ [][NextSqlite]_vars

SpecFlat == Init /\ [][NextFlat]_vars

SpecFlatSeq == Init /\ [][NextFlatSeq]_vars

\* The program before the init() of its backend packages.
InitProgram == InitBolt /\ InitSqlite /\ InitFlat /\ MarshalIdle /\ InitApi

SpecApi == InitProgram /\ [][NextApi]_vars

\* Any tiddler before its MarshalJSON is called.
InitTiddler == InitBolt /\ InitSqlite /\ InitFlat /\ InitMarshal /\ ApiIdle

SpecMarshal == InitTiddler /\ [][NextMarshal]_vars

====
